---- MODULE Spec2Model ----
(***************************************************************************)
(* A model of flat-crawler (src/main.py): one scraper run loads the        *)
(* seen-ad list, scrapes Njuskalo and Index Oglasi through one Playwright  *)
(* page, reconciles the candidates against the seen list, notifies the    *)
(* new ads over Telegram (oldest first) and saves the seen list.           *)
(*                                                                         *)
(* Python values: strings are TLA+ strings, None is NoneVal, a list is a   *)
(* sequence.  seen_ads is whatever json.load returned, so it carries its   *)
(* Python type.                                                            *)
(***************************************************************************)
EXTENDS Integers, Sequences, FiniteSets, TLC

VARIABLES
    file,           \* content of SEEN_ADS_FILE on disk
    pc,             \* position of main(); "idle" between runs
    outcome,        \* how the last run ended
    error,          \* the exception that escaped main(), "none" if none did
    seen_ads,       \* main's seen_ads
    njuskalo_ads,   \* main's njuskalo_ads
    index_ads,      \* main's index_ads
    all_new_ads,    \* main's all_new_ads
    pending,        \* what reversed(all_new_ads) has still to yield
    playwright,     \* the sync_playwright() context
    browser,        \* the chromium browser
    items,          \* an adapter's items (query_selector_all result)
    sent,           \* this run's requests.post calls, in order
    notified,       \* ids posted in earlier finished runs
    file_at_start,  \* the file when the run started
    saves,          \* save_seen_ads calls of this run
    launches,       \* chromium.launch calls of this run
    runs            \* runs started so far

vars == <<file, pc, outcome, error, seen_ads, njuskalo_ads, index_ads,
          all_new_ads, pending, playwright, browser, items, sent, notified,
          file_at_start, saves, launches, runs>>

\* ---------------------------------------------------------------- bounds

\* Runs of main() explored.
MaxRuns == 3
\* Item containers on one rendered page.
MaxItems == 2

\* ---------------------------------------------------------- Python values

NoneVal == "None"
NA == "N/A"

\* ----------------------------------------------------------- str methods

Char(s, i) == SubSeq(s, i, i)

\* t in s
Contains(s, t) ==
    \E i \in 1..(Len(s) - Len(t) + 1) : SubSeq(s, i, i + Len(t) - 1) = t

\* s.startswith(t)
StartsWith(s, t) == Len(s) >= Len(t) /\ SubSeq(s, 1, Len(t)) = t

IsDigitChar(c) == c \in {"0", "1", "2", "3", "4", "5", "6", "7", "8", "9"}

\* s.isdigit()
IsDigit(s) == Len(s) > 0 /\ \A i \in 1..Len(s) : IsDigitChar(Char(s, i))

IsSpaceChar(c) == c \in {" ", "\t", "\n"}

RECURSIVE LStrip(_)
LStrip(s) ==
    IF Len(s) > 0 /\ IsSpaceChar(Char(s, 1))
    THEN LStrip(SubSeq(s, 2, Len(s)))
    ELSE s

RECURSIVE RStrip(_)
RStrip(s) ==
    IF Len(s) > 0 /\ IsSpaceChar(Char(s, Len(s)))
    THEN RStrip(SubSeq(s, 1, Len(s) - 1))
    ELSE s

\* s.strip()
Strip(s) == LStrip(RStrip(s))

\* s.rstrip('/')
RECURSIVE RStripSlash(_)
RStripSlash(s) ==
    IF Len(s) > 0 /\ Char(s, Len(s)) = "/"
    THEN RStripSlash(SubSeq(s, 1, Len(s) - 1))
    ELSE s

\* s.split('/')[-1]
SplitLast(s) ==
    LET slashes == {i \in 1..Len(s) : Char(s, i) = "/"}
        last == IF slashes = {} THEN 0
                ELSE CHOOSE i \in slashes : \A j \in slashes : j <= i
    IN  SubSeq(s, last + 1, Len(s))

\* The longest run of digits of s that starts at position i.
RECURSIVE DigitRun(_, _)
DigitRun(s, i) ==
    IF i <= Len(s) /\ IsDigitChar(Char(s, i))
    THEN Char(s, i) \o DigitRun(s, i + 1)
    ELSE ""

\* re.search(r'-oglas-(\d+)', s): group(1) of the leftmost match, NoneVal
\* when the pattern does not match.
ReSearchOglas(s) ==
    LET tag == "-oglas-"
        hits == {i \in 1..(Len(s) - Len(tag)) :
                    /\ SubSeq(s, i, i + Len(tag) - 1) = tag
                    /\ IsDigitChar(Char(s, i + Len(tag)))}
    IN  IF hits = {} THEN NoneVal
        ELSE LET first == CHOOSE i \in hits : \A j \in hits : i <= j
             IN  DigitRun(s, first + Len(tag))

\* -------------------------------------------------------- the state file

Absent == [kind |-> "absent", ids |-> <<>>]
\* A complete JSON array of id strings.
Array(ids) == [kind |-> "array", ids |-> ids]
\* Zero bytes: what open(..., "w") leaves.
Empty == [kind |-> "empty", ids |-> <<>>]
\* A prefix of the text json.dump writes.
Truncated == [kind |-> "truncated", ids |-> <<>>]
\* Valid JSON that is not an array: {}.
Object == [kind |-> "object", ids |-> <<>>]
\* Bytes the text-mode read cannot decode.
Binary == [kind |-> "binary", ids |-> <<>>]

PyList(s) == [type |-> "list", items |-> s]
PyDict == [type |-> "dict", items |-> <<>>]

\* json.load(f): the parsed value, or the exception it raises.
JsonLoad(f) ==
    CASE f.kind = "array"  -> [raises |-> "none", value |-> PyList(f.ids)]
      [] f.kind = "object" -> [raises |-> "none", value |-> PyDict]
      [] f.kind \in {"empty", "truncated"} ->
            [raises |-> "JSONDecodeError", value |-> PyList(<<>>)]
      [] f.kind = "binary" ->
            [raises |-> "UnicodeDecodeError", value |-> PyList(<<>>)]

\* load_seen_ads(): what it returns or raises, and the file it leaves.
load_seen_ads(f) ==
    IF f.kind = "absent"
    THEN [raises |-> "none", value |-> PyList(<<>>), file |-> Array(<<>>)]
    ELSE LET r == JsonLoad(f)
         IN  IF r.raises = "JSONDecodeError"
             THEN [raises |-> "none", value |-> PyList(<<>>), file |-> f]
             ELSE [raises |-> r.raises, value |-> r.value, file |-> f]

\* ------------------------------------------------------- source adapters

\* Site markup text the adapters look for (the neighbourhood name is
\* written here without its diacritic).
NEKRETNINE == "/nekretnine"
OGLASI == "/oglasi/"
TRESNJEVKA == "Tresnjevka"
NJUSKALO_HOST == "https://www.njuskalo.hr"
INDEX_HOST == "https://www.index.hr"

Skip == [kind |-> "skip"]
Raise == [kind |-> "raise"]
Ad(id, title, price, link) ==
    [kind |-> "ad",
     ad |-> [id |-> id, title |-> title, price |-> price, link |-> link]]

\* One .EntityList-item of Njuskalo: its data-href and data-id attributes,
\* the text and href of ".entity-title a" (title = NoneVal: no such element),
\* the text of the price and of the description element.
NjContainer(data_href, data_id, title, href, price, description) ==
    [data_href |-> data_href, data_id |-> data_id, title |-> title,
     href |-> href, price |-> price, description |-> description]

\* The body of scrape_njuskalo's loop for one item: the ad it appends, a
\* skip (continue), or a raise ('in' applied to a None href is a TypeError).
NjuskaloItem(item) ==
    IF item.data_href \in {NoneVal, ""} THEN Skip
    ELSE
    LET ad_id_match == ReSearchOglas(item.data_href)
        ad_id == IF ad_id_match = NoneVal THEN item.data_id ELSE ad_id_match
        title == IF item.title # NoneVal THEN Strip(item.title) ELSE NA
        link == IF item.title # NoneVal THEN item.href ELSE NA
        description == IF item.description # NoneVal
                       THEN Strip(item.description) ELSE ""
        full_link == IF StartsWith(link, "/")
                     THEN NJUSKALO_HOST \o link ELSE link
        price == IF item.price # NoneVal THEN Strip(item.price) ELSE NA
    IN  CASE ad_id \in {NoneVal, ""} -> Skip
          [] OTHER ->
             IF title = NA \/ link = NA THEN Skip
             ELSE IF link = NoneVal THEN Raise
             ELSE IF ~Contains(link, NEKRETNINE) THEN Skip
             ELSE IF ~Contains(description, TRESNJEVKA) THEN Skip
             ELSE Ad("njuskalo-" \o ad_id, title, price, full_link)

\* One ad link of Index Oglasi: its href, and the text of the title, price
\* and location elements inside it (NoneVal: no such element).
IxContainer(href, title, price, location) ==
    [href |-> href, title |-> title, price |-> price, location |-> location]

\* The body of scrape_index_oglasi's loop for one item.
IndexItem(item) ==
    LET link == item.href IN
    IF link \in {NoneVal, ""} \/ ~Contains(link, OGLASI) THEN Skip
    ELSE
    LET last == SplitLast(link)
        ad_id_path_segment == SplitLast(RStripSlash(link))
        ad_id == IF IsDigit(last) THEN last ELSE ad_id_path_segment
        title == IF item.title # NoneVal THEN Strip(item.title) ELSE NA
        price == IF item.price # NoneVal THEN Strip(item.price) ELSE NA
        location == IF item.location # NoneVal
                    THEN Strip(item.location) ELSE NA
    IN  IF ~IsDigit(ad_id) THEN Skip
        ELSE IF title = NA /\ price = NA THEN Skip
        ELSE IF ~Contains(location, TRESNJEVKA) THEN Skip
        ELSE Ad("index-" \o ad_id, title, price,
                IF StartsWith(link, "http") THEN link ELSE INDEX_HOST \o link)

\* "for item in items" of an adapter, from the ads collected so far: the
\* ads at the end of the loop, and whether an item raised and ended it.
RECURSIVE NjuskaloLoop(_, _)
NjuskaloLoop(its, ads) ==
    IF its = <<>> THEN [ads |-> ads, raised |-> FALSE]
    ELSE LET r == NjuskaloItem(Head(its))
         IN  CASE r.kind = "raise" -> [ads |-> ads, raised |-> TRUE]
               [] r.kind = "skip" -> NjuskaloLoop(Tail(its), ads)
               [] r.kind = "ad" -> NjuskaloLoop(Tail(its), Append(ads, r.ad))

RECURSIVE IndexLoop(_, _)
IndexLoop(its, ads) ==
    IF its = <<>> THEN [ads |-> ads, raised |-> FALSE]
    ELSE LET r == IndexItem(Head(its))
         IN  CASE r.kind = "raise" -> [ads |-> ads, raised |-> TRUE]
               [] r.kind = "skip" -> IndexLoop(Tail(its), ads)
               [] r.kind = "ad" -> IndexLoop(Tail(its), Append(ads, r.ad))

\* What the try block of an adapter leaves in ads, and whether it raised:
\* page.goto and page.wait_for_selector raise before any item is read.  The
\* cookie-button block swallows its own errors and changes nothing here.
NavOutcomes == {"ok", "goto_raises", "selector_timeout"}

scrape_njuskalo_try(nav, page_items) ==
    IF nav = "ok" THEN NjuskaloLoop(page_items, <<>>)
    ELSE [ads |-> <<>>, raised |-> TRUE]

scrape_index_oglasi_try(nav, page_items) ==
    IF nav = "ok" THEN IndexLoop(page_items, <<>>)
    ELSE [ads |-> <<>>, raised |-> TRUE]

\* Whether the adapter's except block lets an exception out: it catches
\* whatever the try block raised, then page.screenshot may itself raise.
HandlerRaises(raised, screenshot_ok) == raised /\ ~screenshot_ok

\* Sequences over S of length at most n.
SeqsUpTo(S, n) == UNION {[1..k -> S] : k \in 0..n}

\* -------------------------------------------------------------- main()

\* x in seen_ads (a dict is searched by key, and {} has none).
In(x, seen) ==
    seen.type = "list" /\ \E i \in 1..Len(seen.items) : seen.items[i] = x

\* Reconcile without "seen_ads.append(ad['id'])".
RECURSIVE ReconcileNoAppend(_, _, _)
ReconcileNoAppend(all_ads, seen, new) ==
    IF all_ads = <<>>
    THEN [seen_ads |-> seen, all_new_ads |-> new, raises |-> "none"]
    ELSE LET ad == Head(all_ads)
         IN  IF In(ad.id, seen)
             THEN ReconcileNoAppend(Tail(all_ads), seen, new)
             ELSE ReconcileNoAppend(Tail(all_ads), seen, Append(new, ad))

\* "for ad in all_ads" of main: what it leaves in seen_ads and all_new_ads,
\* and the exception that ends it (only a list has append).
RECURSIVE Reconcile(_, _, _)
Reconcile(all_ads, seen, new) ==
    IF all_ads = <<>>
    THEN [seen_ads |-> seen, all_new_ads |-> new, raises |-> "none"]
    ELSE LET ad == Head(all_ads)
         IN  IF In(ad.id, seen)
             THEN Reconcile(Tail(all_ads), seen, new)
             ELSE IF seen.type = "list"
             THEN Reconcile(Tail(all_ads),
                            PyList(Append(seen.items, ad.id)),
                            Append(new, ad))
             ELSE [seen_ads |-> seen, all_new_ads |-> Append(new, ad),
                   raises |-> "AttributeError"]

\* The "if all_new_ads:" test dropped: the save is unconditional.
ShouldSaveAlways(new) == TRUE

\* "if all_new_ads:"
ShouldSave(new) == new # <<>>

\* all_new_ads iterated without reversed().
reversedDropped(s) == s

\* reversed(s)
reversed(s) == [i \in 1..Len(s) |-> s[Len(s) + 1 - i]]

\* send_telegram_notification without its "except requests.RequestException".
send_telegram_notification_uncaught(has_credentials, post_ok) ==
    IF ~has_credentials THEN [posted |-> FALSE, raises |-> "none"]
    ELSE [posted |-> TRUE,
          raises |-> IF post_ok THEN "none" ELSE "RequestException"]

\* send_telegram_notification(ad): whether it posts, and what it raises.
\* has_credentials: TELEGRAM_BOT_TOKEN and TELEGRAM_CHAT_ID are both set;
\* post_ok: requests.post and raise_for_status raise no RequestException.
send_telegram_notification(has_credentials, post_ok) ==
    IF ~has_credentials THEN [posted |-> FALSE, raises |-> "none"]
    ELSE [posted |-> TRUE, raises |-> "none"]

\* What json.dump(ad_ids, f, indent=4) leaves once the file is closed.
save_seen_ads(ad_ids) == Array(ad_ids)

\* The browser when Playwright is started without a with block: nothing
\* stops it when an exception passes.
WithExitAbsent(b) == b

\* What is left of the browser once the sync_playwright() block is left:
\* stopping Playwright ends its driver and the browsers the driver owns.
WithExit(b) == IF b = "open" THEN "closed" ELSE b

Ids(s) == {s[i].id : i \in 1..Len(s)}

\* An exception leaves main(), through the with block when it was entered.
Escapes(err) ==
    /\ pc' = "idle"
    /\ outcome' = "raised"
    /\ error' = err

LeaveWith ==
    /\ playwright' = "stopped"
    /\ browser' = WithExit(browser)

\* Pages of the two sites as the runs see them.
NjGood(n) ==
    NjContainer("/nekretnine/stan-oglas-" \o n, NoneVal, "Stan " \o n,
                "/nekretnine/stan-oglas-" \o n, "500 EUR", "Tresnjevka")
NjNoHref ==
    NjContainer("/nekretnine/stan-oglas-3", NoneVal, "Stan 3", NoneVal,
                "500 EUR", "Tresnjevka")
IxGood(n) ==
    IxContainer("/oglasi/nekretnine/najam-stanova/oglas/stan/" \o n,
                "Stan " \o n, "450 EUR", "Tresnjevka - jug")

\* The ad of NjGood("1") listed again with another title and price.
NjRelisted ==
    NjContainer("/nekretnine/stan-oglas-1", NoneVal, "Stan 1 novo",
                "/nekretnine/stan-oglas-1", "480 EUR", "Tresnjevka")

NjPages ==
    SeqsUpTo({NjGood("1"), NjGood("2"), NjRelisted, NjNoHref}, MaxItems)
IxPages == SeqsUpTo({IxGood("1")}, MaxItems)

\* The state file before the first run: none, or one the program wrote.
InitFiles == {Absent, Array(<<>>), Array(<<"njuskalo-1">>)}
\* Any state file.
AnyFiles == InitFiles \cup {Empty, Truncated, Object, Binary}

InitRest ==
    /\ pc = "idle"
    /\ outcome = "none"
    /\ error = "none"
    /\ seen_ads = PyList(<<>>)
    /\ njuskalo_ads = <<>>
    /\ index_ads = <<>>
    /\ all_new_ads = <<>>
    /\ pending = <<>>
    /\ playwright = "none"
    /\ browser = "none"
    /\ items = <<>>
    /\ sent = <<>>
    /\ notified = {}
    /\ file_at_start = file
    /\ saves = 0
    /\ launches = 0
    /\ runs = 0

Init == file \in InitFiles /\ InitRest

InitAnyFile == file \in AnyFiles /\ InitRest

\* main() up to the with block: the credentials check and load_seen_ads().
Main_Start ==
    /\ pc = "idle"
    /\ runs < MaxRuns
    /\ runs' = runs + 1
    /\ notified' = IF outcome = "finished" THEN notified \cup Ids(sent)
                   ELSE notified
    /\ file_at_start' = file
    /\ sent' = <<>>
    /\ saves' = 0
    /\ launches' = 0
    /\ njuskalo_ads' = <<>>
    /\ index_ads' = <<>>
    /\ all_new_ads' = <<>>
    /\ pending' = <<>>
    /\ playwright' = "none"
    /\ browser' = "none"
    /\ UNCHANGED items
    /\ \E has_credentials \in BOOLEAN :
        IF ~has_credentials
        THEN /\ pc' = "idle"
             /\ outcome' = "skipped"
             /\ error' = "none"
             /\ seen_ads' = PyList(<<>>)
             /\ UNCHANGED file
        ELSE LET r == load_seen_ads(file)
             IN  /\ file' = r.file
                 /\ seen_ads' = r.value
                 /\ IF r.raises # "none"
                    THEN Escapes(r.raises)
                    ELSE /\ pc' = "launch"
                         /\ outcome' = "running"
                         /\ error' = "none"

\* with sync_playwright() as p: launch, new_context, new_page.
Main_Launch ==
    /\ pc = "launch"
    /\ launches' = launches + 1
    /\ \E o \in {"ok", "launch_raises", "context_raises"} :
        CASE o = "ok" ->
                /\ playwright' = "started"
                /\ browser' = "open"
                /\ pc' = "njuskalo"
                /\ UNCHANGED <<outcome, error>>
          [] o = "launch_raises" ->
                /\ playwright' = "stopped"
                /\ browser' = WithExit("none")
                /\ Escapes("LaunchError")
          [] o = "context_raises" ->
                /\ playwright' = "stopped"
                /\ browser' = WithExit("open")
                /\ Escapes("LaunchError")
    /\ UNCHANGED <<file, seen_ads, njuskalo_ads, index_ads, all_new_ads,
                   pending, items, sent, notified, file_at_start, saves, runs>>

\* njuskalo_ads = scrape_njuskalo(page)
Main_ScrapeNjuskalo ==
    /\ pc = "njuskalo"
    /\ \E nav \in NavOutcomes, page_items \in NjPages, screenshot_ok \in BOOLEAN :
        LET r == scrape_njuskalo_try(nav, page_items)
        IN  IF HandlerRaises(r.raised, screenshot_ok)
            THEN /\ Escapes("ScreenshotError")
                 /\ LeaveWith
                 /\ UNCHANGED njuskalo_ads
            ELSE /\ njuskalo_ads' = r.ads
                 /\ pc' = "index"
                 /\ UNCHANGED <<outcome, error, playwright, browser>>
    /\ UNCHANGED <<file, seen_ads, index_ads, all_new_ads, pending, items,
                   sent, notified, file_at_start, saves, launches, runs>>

\* index_ads = scrape_index_oglasi(page)
Main_ScrapeIndex ==
    /\ pc = "index"
    /\ \E nav \in NavOutcomes, page_items \in IxPages, screenshot_ok \in BOOLEAN :
        LET r == scrape_index_oglasi_try(nav, page_items)
        IN  IF HandlerRaises(r.raised, screenshot_ok)
            THEN /\ Escapes("ScreenshotError")
                 /\ LeaveWith
                 /\ UNCHANGED index_ads
            ELSE /\ index_ads' = r.ads
                 /\ pc' = "reconcile"
                 /\ UNCHANGED <<outcome, error, playwright, browser>>
    /\ UNCHANGED <<file, seen_ads, njuskalo_ads, all_new_ads, pending, items,
                   sent, notified, file_at_start, saves, launches, runs>>

\* all_ads = njuskalo_ads + index_ads, the "Process ads" loop and the
\* "if all_new_ads" test.
Main_Reconcile ==
    /\ pc = "reconcile"
    /\ LET r == Reconcile(njuskalo_ads \o index_ads, seen_ads, all_new_ads)
       IN  /\ seen_ads' = r.seen_ads
           /\ all_new_ads' = r.all_new_ads
           /\ IF r.raises # "none"
              THEN /\ Escapes(r.raises)
                   /\ LeaveWith
                   /\ UNCHANGED pending
              ELSE /\ pending' = reversed(r.all_new_ads)
                   /\ pc' = IF ~ShouldSave(r.all_new_ads) THEN "close"
                            ELSE IF r.all_new_ads = <<>> THEN "save_open"
                            ELSE "notify"
                   /\ UNCHANGED <<outcome, error, playwright, browser>>
    /\ UNCHANGED <<file, njuskalo_ads, index_ads, items, sent, notified,
                   file_at_start, saves, launches, runs>>

\* One turn of "for ad in reversed(all_new_ads)".
Main_Notify ==
    /\ pc = "notify"
    /\ pending # <<>>
    /\ \E post_ok \in BOOLEAN :
        LET ad == Head(pending)
            r == send_telegram_notification(TRUE, post_ok)
        IN  /\ sent' = IF r.posted
                       THEN Append(sent, [id |-> ad.id, ok |-> post_ok])
                       ELSE sent
            /\ pending' = Tail(pending)
            /\ IF r.raises # "none"
               THEN /\ Escapes(r.raises)
                    /\ LeaveWith
               ELSE /\ pc' = IF Tail(pending) = <<>> THEN "save_open"
                             ELSE "notify"
                    /\ UNCHANGED <<outcome, error, playwright, browser>>
    /\ UNCHANGED <<file, seen_ads, njuskalo_ads, index_ads, all_new_ads,
                   items, notified, file_at_start, saves, launches, runs>>

\* save_seen_ads: open(SEEN_ADS_FILE, "w") truncates the file, or raises.
Main_SaveOpen ==
    /\ pc = "save_open"
    /\ saves' = saves + 1
    /\ \E open_ok \in BOOLEAN :
        IF open_ok
        THEN /\ file' = Empty
             /\ pc' = "save_dump"
             /\ UNCHANGED <<outcome, error, playwright, browser>>
        ELSE /\ Escapes("OSError")
             /\ LeaveWith
             /\ UNCHANGED file
    /\ UNCHANGED <<seen_ads, njuskalo_ads, index_ads, all_new_ads, pending,
                   items, sent, notified, file_at_start, launches, runs>>

\* save_seen_ads: json.dump writes the list and the file is closed, or the
\* write fails and leaves what had been written.
Main_SaveDump ==
    /\ pc = "save_dump"
    /\ \E write_ok \in BOOLEAN, left \in {Empty, Truncated} :
        IF write_ok
        THEN /\ file' = save_seen_ads(seen_ads.items)
             /\ pc' = "close"
             /\ UNCHANGED <<outcome, error, playwright, browser>>
        ELSE /\ file' = left
             /\ Escapes("OSError")
             /\ LeaveWith
    /\ UNCHANGED <<seen_ads, njuskalo_ads, index_ads, all_new_ads, pending,
                   items, sent, notified, file_at_start, saves, launches, runs>>

\* browser.close(), the end of the with block and of main().
Main_Close ==
    /\ pc = "close"
    /\ browser' = "closed"
    /\ playwright' = "stopped"
    /\ pc' = "idle"
    /\ outcome' = "finished"
    /\ UNCHANGED <<file, error, seen_ads, njuskalo_ads, index_ads,
                   all_new_ads, pending, items, sent, notified,
                   file_at_start, saves, launches, runs>>

Next ==
    \/ Main_Start
    \/ Main_Launch
    \/ Main_ScrapeNjuskalo
    \/ Main_ScrapeIndex
    \/ Main_Reconcile
    \/ Main_Notify
    \/ Main_SaveOpen
    \/ Main_SaveDump
    \/ Main_Close

\* Runs that start with no state file or with one the program wrote.
Spec == Init /\ [][Next]_vars

\* Runs that start with any state file.
SpecAnyFile == InitAnyFile /\ [][Next]_vars

\* ------------------------------------------------- the adapters' item loops

\* Item containers covering the branches of the two loops.
NjSamples ==
    {NjGood("1"),
     NjContainer("/nekretnine/stan-oglas-2", NoneVal, " Stan 2 ",
                 "https://www.njuskalo.hr/nekretnine/stan-oglas-2",
                 NoneVal, "Zagreb, Tresnjevka - jug"),
     NjContainer(NoneVal, "4", "Stan 4", "/nekretnine/stan-4", "1 EUR",
                 "Tresnjevka"),
     NjContainer("/nekretnine/stan-5", "5", "Stan 5", "/nekretnine/stan-5",
                 "1 EUR", "Tresnjevka"),
     NjContainer("/nekretnine/stan-6", NoneVal, "Stan 6", "/nekretnine/stan-6",
                 "1 EUR", "Tresnjevka"),
     NjContainer("/nekretnine/stan-oglas-7", NoneVal, NoneVal, NoneVal,
                 "1 EUR", "Tresnjevka"),
     NjNoHref,
     NjContainer("/auti/golf-oglas-8", NoneVal, "Golf", "/auti/golf-oglas-8",
                 "1 EUR", "Tresnjevka"),
     NjContainer("/nekretnine/stan-oglas-9", NoneVal, "Stan 9",
                 "/nekretnine/stan-oglas-9", "1 EUR", "Maksimir"),
     NjContainer("/nekretnine/stan-oglas-10", NoneVal, "Stan 10",
                 "/nekretnine/stan-oglas-10", "1 EUR", NoneVal),
     NjContainer("/nekretnine/stan-oglas-11", NoneVal, "  ",
                 "/nekretnine/stan-oglas-11", NoneVal, "Tresnjevka")}

IxSamples ==
    {IxGood("1"),
     IxContainer("https://www.index.hr/oglasi/nekretnine/najam-stanova/oglas/stan/2",
                 " Stan 2 ", "2 EUR", "Tresnjevka"),
     IxContainer(NoneVal, "Stan 3", "3 EUR", "Tresnjevka"),
     IxContainer("/nekretnine/najam-stanova/oglas/stan/4", "Stan 4", "4 EUR",
                 "Tresnjevka"),
     IxContainer("/oglasi/nekretnine/najam-stanova/oglas/stan/5/", "Stan 5",
                 "5 EUR", "Tresnjevka"),
     IxContainer("/oglasi/nekretnine/najam-stanova/oglas/stan", "Stan 6",
                 "6 EUR", "Tresnjevka"),
     IxContainer("/oglasi/nekretnine/najam-stanova/oglas/stan/7", NoneVal,
                 "7 EUR", "Tresnjevka"),
     IxContainer("/oglasi/nekretnine/najam-stanova/oglas/stan/8", "Stan 8",
                 NoneVal, "Tresnjevka"),
     IxContainer("/oglasi/nekretnine/najam-stanova/oglas/stan/9", NoneVal,
                 NoneVal, "Tresnjevka"),
     IxContainer("/oglasi/nekretnine/najam-stanova/oglas/stan/10", "Stan 10",
                 "10 EUR", "Maksimir"),
     IxContainer("/oglasi/nekretnine/najam-stanova/oglas/stan/11", "Stan 11",
                 "11 EUR", NoneVal)}

\* main() inside the with block of its first run, the file created.
InitExtractRest ==
    /\ outcome = "none"
    /\ error = "none"
    /\ seen_ads = PyList(<<>>)
    /\ njuskalo_ads = <<>>
    /\ index_ads = <<>>
    /\ all_new_ads = <<>>
    /\ pending = <<>>
    /\ playwright = "started"
    /\ browser = "open"
    /\ sent = <<>>
    /\ notified = {}
    /\ file = Array(<<>>)
    /\ file_at_start = Absent
    /\ saves = 0
    /\ launches = 1
    /\ runs = 1

\* An adapter that has read its items from the page.
InitExtract ==
    /\ InitExtractRest
    /\ \/ /\ pc = "njuskalo_items"
          /\ items \in SeqsUpTo(NjSamples, MaxItems)
       \/ /\ pc = "index_items"
          /\ items \in SeqsUpTo(IxSamples, MaxItems)

\* "for item in items" of scrape_njuskalo, from ads = [].
Njuskalo_Items ==
    /\ pc = "njuskalo_items"
    /\ njuskalo_ads' = NjuskaloLoop(items, <<>>).ads
    /\ pc' = "njuskalo_done"
    /\ UNCHANGED <<file, outcome, error, seen_ads, index_ads, all_new_ads,
                   pending, playwright, browser, items, sent, notified,
                   file_at_start, saves, launches, runs>>

\* "for item in items" of scrape_index_oglasi, from ads = [].
Index_Items ==
    /\ pc = "index_items"
    /\ index_ads' = IndexLoop(items, <<>>).ads
    /\ pc' = "index_done"
    /\ UNCHANGED <<file, outcome, error, seen_ads, njuskalo_ads, all_new_ads,
                   pending, playwright, browser, items, sent, notified,
                   file_at_start, saves, launches, runs>>

NextExtract == Njuskalo_Items \/ Index_Items

\* The item loops of the two adapters over sample pages.
SpecExtract == InitExtract /\ [][NextExtract]_vars

\* ------------------------------------------------------------- properties

\* C1: once main's "Process ads" loop has run, all_new_ads holds each
\* identity at most once, holds no identity of the loaded seen list, and is
\* exactly the first occurrences, in order, of the candidates whose identity
\* was not loaded.
C1_NewOnlyOnce ==
    LET all_ads == njuskalo_ads \o index_ads
        loaded == IF file_at_start.kind = "array"
                  THEN {file_at_start.ids[i] : i \in 1..Len(file_at_start.ids)}
                  ELSE {}
        firsts == {j \in 1..Len(all_ads) :
                      /\ all_ads[j].id \notin loaded
                      /\ \A k \in 1..(j - 1) : all_ads[k].id # all_ads[j].id}
        n == Len(all_new_ads)
    IN  pc \in {"notify", "save_open", "save_dump", "close"} =>
            /\ \A i, j \in 1..n :
                  i # j => all_new_ads[i].id # all_new_ads[j].id
            /\ \A i \in 1..n : all_new_ads[i].id \notin loaded
            /\ n = Cardinality(firsts)
            /\ \A i \in 1..n : \E j \in firsts :
                  /\ all_new_ads[i] = all_ads[j]
                  /\ Cardinality({k \in firsts : k <= j}) = i

\* C1 witness: a reconciled run whose candidates repeat a new identity, with
\* different titles, and also hold an identity that was loaded.
C1_Witness ==
    LET all_ads == njuskalo_ads \o index_ads
    IN  /\ pc = "notify"
        /\ file_at_start.kind = "array"
        /\ \E i, j \in 1..Len(all_ads) :
              /\ i < j
              /\ all_ads[i].id = all_ads[j].id
              /\ all_ads[i].title # all_ads[j].title
              /\ \E k \in 1..Len(all_new_ads) : all_new_ads[k] = all_ads[i]
        /\ \E i \in 1..Len(all_ads), k \in 1..Len(file_at_start.ids) :
              all_ads[i].id = file_at_start.ids[k]

\* C2: no identity posted in an earlier finished run is posted again.
C2_NeverPostedAgain ==
    \A i \in 1..Len(sent) : sent[i].id \notin notified

\* C3: the posts of a run are made in the reverse of the order of
\* all_new_ads, and once the notification loop is over there is exactly one
\* post per new ad.
C3_ReverseOrder ==
    LET n == Len(all_new_ads)
    IN  /\ Len(sent) <= n
        /\ \A i \in 1..Len(sent) : sent[i].id = all_new_ads[n + 1 - i].id
        /\ pc \in {"save_open", "save_dump"} => Len(sent) = n
        /\ (pc \in {"close", "idle"} /\ saves > 0) => Len(sent) = n

\* C3 witness: three new ads, all posted.
C3_Witness ==
    /\ pc = "save_open"
    /\ Len(all_new_ads) = 3
    /\ Len(sent) = 3
    /\ sent[1].id = all_new_ads[3].id
    /\ sent[3].id = all_new_ads[1].id
    /\ sent[1].id # sent[3].id

\* C4: a run that posts anything posts every new ad and reaches the save,
\* whatever the posts' outcomes; the identities added by the "Process ads"
\* loop stay in seen_ads; and a run with new ads that finishes leaves all
\* their identities in the state file.
C4_FailuresIsolated ==
    LET n == Len(all_new_ads)
    IN  /\ (pc = "idle" /\ sent # <<>>) => (Len(sent) = n /\ saves = 1)
        /\ (pc \in {"notify", "save_open", "save_dump", "close"}
              \/ (pc = "idle" /\ outcome = "finished")) =>
              \A i \in 1..n : In(all_new_ads[i].id, seen_ads)
        /\ (pc = "idle" /\ outcome = "finished" /\ n > 0) =>
              /\ file.kind = "array"
              /\ \A i \in 1..n : \E k \in 1..Len(file.ids) :
                    file.ids[k] = all_new_ads[i].id

\* C4 witness: a finished run whose first post failed and second succeeded.
C4_Witness ==
    /\ pc = "idle"
    /\ outcome = "finished"
    /\ Len(all_new_ads) = 2
    /\ Len(sent) = 2
    /\ ~sent[1].ok
    /\ sent[2].ok
    /\ file = Array(seen_ads.items)

\* C5: no exception leaves a source adapter.
C5_AdapterNeverRaises == error # "ScreenshotError"

\* C6 as claimed: a finished run without new ads called save_seen_ads never
\* and left the state file as it was when the run started.
C6_FileAsAtStart ==
    (pc = "idle" /\ outcome = "finished" /\ all_new_ads = <<>>) =>
        (saves = 0 /\ file = file_at_start)

\* C6: a run without new ads never calls save_seen_ads; it leaves the state
\* file as it was when the run started if there was one, and holding an
\* empty array, written by load_seen_ads, if there was none.
C6_NoSaveWithoutNewAds ==
    (all_new_ads = <<>> /\ (pc = "close" \/ (pc = "idle" /\ outcome = "finished"))) =>
        /\ saves = 0
        /\ file_at_start.kind # "absent" => file = file_at_start
        /\ file_at_start.kind = "absent" => file = Array(<<>>)

\* C6 witness: a finished run that found only ads it had seen.
C6_Witness ==
    /\ pc = "idle"
    /\ outcome = "finished"
    /\ all_new_ads = <<>>
    /\ njuskalo_ads # <<>>
    /\ index_ads # <<>>
    /\ file = file_at_start
    /\ saves = 0

\* C7: load_seen_ads raises nothing, and returns an empty list unless the
\* file holds a JSON array of identities.
C7_LoadNeverFails ==
    /\ error # "UnicodeDecodeError"
    /\ (pc = "launch" /\ file_at_start.kind # "array") =>
          seen_ads = PyList(<<>>)

\* C8: from the moment save_seen_ads is called, the state file holds either
\* all of what it held before the call or all of the new list.
C8_AtomicSave ==
    LET before == IF file_at_start.kind = "absent" THEN Array(<<>>)
                  ELSE file_at_start
    IN  saves > 0 => file \in {before, Array(seen_ads.items)}

\* C9: a run launches the browser at most once, exactly once when it gets
\* past the launch, and when the run is over neither Playwright nor the
\* browser is left running.
C9_SessionReleased ==
    /\ launches <= 1
    /\ pc \notin {"idle", "launch"} =>
          (launches = 1 /\ playwright = "started" /\ browser = "open")
    /\ (pc = "idle" /\ outcome = "finished") => launches = 1
    /\ pc = "idle" => (playwright # "started" /\ browser # "open")

\* C9 witness: a run that ended in the failed save, the browser closed.
C9_Witness ==
    /\ pc = "idle"
    /\ outcome = "raised"
    /\ error = "OSError"
    /\ launches = 1
    /\ browser = "closed"
    /\ playwright = "stopped"

\* C10: no ad that an adapter emits has the "N/A" title or link, and an item
\* with a title that yields an ad when it has a price yields one without.
C10_TitleAndLinkRequired ==
    LET priced(c) == [c EXCEPT !.price = "1 EUR"]
        unpriced(c) == [c EXCEPT !.price = NoneVal]
    IN  /\ pc = "njuskalo_done" =>
              /\ \A i \in 1..Len(njuskalo_ads) :
                    njuskalo_ads[i].title # NA /\ njuskalo_ads[i].link # NA
              /\ \A i \in 1..Len(items) :
                    NjuskaloItem(priced(items[i])).kind = "ad" =>
                        NjuskaloItem(unpriced(items[i])).kind = "ad"
        /\ pc = "index_done" =>
              /\ \A i \in 1..Len(index_ads) :
                    index_ads[i].title # NA /\ index_ads[i].link # NA
              /\ \A i \in 1..Len(items) :
                    (items[i].title # NoneVal
                        /\ IndexItem(priced(items[i])).kind = "ad") =>
                            IndexItem(unpriced(items[i])).kind = "ad"

====
